---- MODULE Spec2Model ----
(***************************************************************************)
(* NFL coaching-tree scraper: the crawl of scrape_coaches.py, the two      *)
(* dataset patch scripts, and the pure helpers they rest on.               *)
(*                                                                         *)
(* Strings that the code inspects character by character (coach names,    *)
(* link texts) are sequences of one-character strings.  Coach ids, page    *)
(* titles and team names are only compared for equality and are strings.  *)
(***************************************************************************)
EXTENDS Integers, Sequences, FiniteSets, TLC

VARIABLES
    pc,              \* where the run stands: "crawl", "patch" (the dataset is on disk), ...
    seed_coaches,    \* scrape_coaching_trees: result of get_current_head_coaches()
    coaches_data,    \* dict id -> coach record, in insertion order
    connections,     \* list of connection records
    visited,         \* set of page titles already dequeued for scraping
    career_data,     \* dict coach_id -> career list, in insertion order
    queue,           \* deque of <<name, page_title, team, is_current_hc>>
    connection_set,  \* set of <<source, target>> keys
    depth_map,       \* dict page_title -> depth
    total_scraped,   \* processed-page counter
    iter,            \* locals of the last loop iteration (coach_id, html, tree_members, ...)
    fetch_log,       \* every call of fetch_page_html made by the crawl, in order
    data,            \* the persisted dataset coaching_connections.json
    runs,            \* what each patch-script run so far was given and reported
    mk,              \* make_id under test: its argument and results
    memo,            \* results of the pure helpers for the names and list items met
    ex,              \* parse_coaching_tree_section at work: the section, the position, the two parsers
    analysis         \* depth analysis of patch_missing_connections: the graph and the locals of its BFS

crawlVars == <<seed_coaches, coaches_data, connections, visited, career_data, queue,
               connection_set, depth_map, total_scraped, iter, fetch_log>>
vars == <<pc, seed_coaches, coaches_data, connections, visited, career_data, queue,
          connection_set, depth_map, total_scraped, iter, fetch_log, data, runs, mk, memo, ex, analysis>>

None == "None"

(***************************************************************************)
(* Generic sequence helpers.                                               *)
(***************************************************************************)
Range(s) == {s[i] : i \in 1..Len(s)}

SeqsUpTo(S, n) == UNION {[1..k -> S] : k \in 0..n}

RECURSIVE Str(_)
\* The Python str whose characters are the elements of cs.
Str(cs) == IF cs = <<>> THEN "" ELSE Head(cs) \o Str(Tail(cs))

(***************************************************************************)
(* make_id (scrape_coaches.py and patch_klint_kubiak.py, same body).       *)
(***************************************************************************)
Whitespace == {" ", "\t", "\n"}

UpperCase == <<"A","B","C","D","E","F","G","H","I","J","K","L","M",
               "N","O","P","Q","R","S","T","U","V","W","X","Y","Z">>
LowerCase == <<"a","b","c","d","e","f","g","h","i","j","k","l","m",
               "n","o","p","q","r","s","t","u","v","w","x","y","z">>
Digits == {"0","1","2","3","4","5","6","7","8","9"}

\* str.lower() on one character
Lower(c) == IF \E i \in 1..26 : UpperCase[i] = c
            THEN LowerCase[CHOOSE i \in 1..26 : UpperCase[i] = c]
            ELSE c

\* first index >= i of s that holds no whitespace, Len(s)+1 if none
SkipSpace(s, i) ==
    LET stops == {j \in i..Len(s) : s[j] \notin Whitespace}
    IN  IF stops = {} THEN Len(s) + 1 ELSE CHOOSE j \in stops : \A k \in stops : j <= k

\* name.strip()
Strip(s) ==
    LET keep == {j \in 1..Len(s) : s[j] \notin Whitespace}
    IN  IF keep = {} THEN <<>>
        ELSE SubSeq(s, CHOOSE j \in keep : \A k \in keep : j <= k,
                       CHOOSE j \in keep : \A k \in keep : j >= k)

RECURSIVE RemoveParens(_, _)
\* re.sub(r"\s*\(.*?\)\s*", "", s), scanning from index i: the leftmost match starts
\* at i when the whitespace run at i is followed by "(" and a ")" follows on the same
\* line; the match runs to the first such ")" and over the whitespace after it.
RemoveParens(s, i) ==
    IF i > Len(s) THEN <<>>
    ELSE LET j == SkipSpace(s, i)
             closes == IF j <= Len(s) /\ s[j] = "("
                       THEN {k \in (j+1)..Len(s) :
                               /\ s[k] = ")"
                               /\ \A m \in (j+1)..(k-1) : s[m] # "\n"}
                       ELSE {}
         IN  IF closes # {}
             THEN LET k == CHOOSE k \in closes : \A m \in closes : k <= m
                  IN  RemoveParens(s, SkipSpace(s, k + 1))
             ELSE <<s[i]>> \o RemoveParens(s, i + 1)

\* re.sub(r"[^a-z0-9\s-]", "", s)
KeepIdChars(s) ==
    SelectSeq(s, LAMBDA c : \/ c \in Range(LowerCase)
                            \/ c \in Digits
                            \/ c \in Whitespace
                            \/ c = "-")

RECURSIVE UnderscoreSpace(_, _)
\* a variant of the last substitution that joins the words with "_"
UnderscoreSpace(s, i) ==
    IF i > Len(s) THEN <<>>
    ELSE IF s[i] \in Whitespace
         THEN <<"_">> \o UnderscoreSpace(s, SkipSpace(s, i))
         ELSE <<s[i]>> \o UnderscoreSpace(s, i + 1)

RECURSIVE HyphenateSpace(_, _)
\* re.sub(r"\s+", "-", s), scanning from index i
HyphenateSpace(s, i) ==
    IF i > Len(s) THEN <<>>
    ELSE IF s[i] \in Whitespace
         THEN <<"-">> \o HyphenateSpace(s, SkipSpace(s, i))
         ELSE <<s[i]>> \o HyphenateSpace(s, i + 1)

\* def make_id(name)
make_id(name) ==
    LET stripped == Strip(name)
        noparens == RemoveParens(stripped, 1)
        lowered  == [i \in 1..Len(noparens) |-> Lower(noparens[i])]
        kept     == KeepIdChars(lowered)
    IN  HyphenateSpace(kept, 1)


(***************************************************************************)
(* extract_years_from_context (scrape_coaches.py and patch_klint_kubiak.py,*)
(* same body).                                                             *)
(***************************************************************************)
\* U+2013 EN DASH, written as one character of a text
EnDash == "u2013"

Dashes == {"-", EnDash}

IsYear(s, i) == i + 3 <= Len(s) /\ \A k \in i..(i+3) : s[k] \in Digits

\* "present" at index i, ignoring case
IsPresent(s, i) ==
    /\ i + 6 <= Len(s)
    /\ [k \in 1..7 |-> Lower(s[i + k - 1])] = <<"p","r","e","s","e","n","t">>

\* where the second group of (\d{4})\s*[-EnDash]\s*(\d{4}|present) starts for a match
\* that starts at index i; 0 when there is no match at i
RangeGroup2(s, i) ==
    IF ~IsYear(s, i) THEN 0
    ELSE LET j == SkipSpace(s, i + 4)
         IN  IF j > Len(s) \/ s[j] \notin Dashes THEN 0
             ELSE LET k == SkipSpace(s, j + 1)
                  IN  IF IsYear(s, k) \/ IsPresent(s, k) THEN k ELSE 0

extract_years_from_context(context_text) ==
    LET s == context_text
        ranges == {i \in 1..Len(s) : RangeGroup2(s, i) # 0}
        singles == {i \in 1..Len(s) :
                       /\ s[i] = "(" /\ IsYear(s, i + 1)
                       /\ i + 5 <= Len(s) /\ s[i + 5] = ")"}
    IN  IF ranges # {}
        THEN LET i == CHOOSE i \in ranges : \A m \in ranges : i <= m
                 k == RangeGroup2(s, i)
             IN  Str(SubSeq(s, i, i + 3)) \o "-" \o
                 Str(SubSeq(s, k, IF IsYear(s, k) THEN k + 3 ELSE k + 6))
        ELSE IF singles # {}
        THEN LET i == CHOOSE i \in singles : \A m \in singles : i <= m
             IN  Str(SubSeq(s, i + 1, i + 4))
        ELSE None


(***************************************************************************)
(* The part of the encyclopedia the model crawls: display names (texts),   *)
(* page titles, and what a fetched page can hold.                          *)
(***************************************************************************)
JimHarbaugh ==
  <<"J","i","m"," ","H","a","r","b","a","u","g","h">>
KevinStefanski ==
  <<"K","e","v","i","n"," ","S","t","e","f","a","n","s","k","i">>
GaryKubiak ==
  <<"G","a","r","y"," ","K","u","b","i","a","k">>
GaryKubiakOC ==
  <<"G","A","R","Y"," ","K","U","B","I","A","K"," ","(","O","C",")">>
KlintKubiak ==
  <<"K","l","i","n","t"," ","K","u","b","i","a","k">>

YearNote == <<" ","(","2","0","0","2",EnDash,"2","0","0","3",")">>

\* get_current_head_coaches() returns a list of {name, page_title, team} with
\* distinct names.
SeedOptions ==
    { [name |-> JimHarbaugh, page_title |-> "Jim Harbaugh", team |-> "Los Angeles Chargers"],
      [name |-> KevinStefanski, page_title |-> "Kevin Stefanski", team |-> "Cleveland Browns"] }

MaxSeeds == 2

SeedLists ==
    {sl \in SeqsUpTo(SeedOptions, MaxSeeds) :
        /\ sl # <<>>
        /\ \A i, j \in 1..Len(sl) : sl[i].name = sl[j].name => i = j}

\* parse_coaching_tree_section returns a list of
\* (linked_name, page_title, relationship, context_text); the context is the text of
\* the list item, which holds the link text.  Two link texts lead to the page
\* "Gary Kubiak", one for each role, and the page of a seed is linked as well.
LinkOptions ==
    { <<GaryKubiak, "Gary Kubiak", "mentor", GaryKubiak \o YearNote>>,
      <<GaryKubiakOC, "Gary Kubiak", "protege", GaryKubiakOC>>,
      <<JimHarbaugh, "Jim Harbaugh", "mentor", JimHarbaugh \o YearNote>> }

MaxMembers == 2

TreeMemberLists == SeqsUpTo(LinkOptions, MaxMembers)

\* the links the coaching-tree section of the page "Klint Kubiak" can hold
KlintLinkOptions ==
    { <<GaryKubiak, "Gary Kubiak", "protege", GaryKubiak>>,
      <<KevinStefanski, "Kevin Stefanski", "mentor", KevinStefanski \o YearNote>>,
      <<KlintKubiak, "Klint Kubiak", "protege", KlintKubiak>> }

MaxKlintMembers == 1

KlintTreeMemberLists == SeqsUpTo(KlintLinkOptions, MaxKlintMembers)

\* parse_career_history returns a list of {team, role, year_start, year_end}
CareerEntry(team, ys, ye) == [team |-> team, role |-> "", year_start |-> ys, year_end |-> ye]

RECURSIVE Repeat(_, _)
Repeat(s, n) == IF n = 0 THEN "" ELSE s \o Repeat(s, n - 1)

\* the text of an infobox cell before its first year, when the cell is a long one
LongTeam == Repeat("Minnesota Vikings assistant, ", 11) \o "coach"

PageCareers ==
    { <<>>,
      <<CareerEntry("Vikings", 2006, 2010)>>,
      <<CareerEntry(LongTeam, 2006, 2010)>> }

\* what fetch_page_html can return for a page: None, or html whose coaching-tree
\* section and infobox parse to these
PageContents == [tree_members : TreeMemberLists, career : PageCareers]

\* every display name and every list-item text the model's pages hold
Names == {sc.name : sc \in SeedOptions} \cup {m[1] : m \in LinkOptions \cup KlintLinkOptions}
Contexts == {m[4] : m \in LinkOptions \cup KlintLinkOptions}

\* make_id(name) as the str the crawl stores, for each name of the model
IdOfName == [n \in Names |-> Str(make_id(n))]

\* extract_years_from_context(context) for each list-item text of the model
YearsOfContext == [c \in Contexts |-> extract_years_from_context(c)]

\* make_id and extract_years_from_context are pure: what they return for these names
\* and list items is computed once and looked up by the steps below
Memo == [make_id |-> IdOfName, extract_years_from_context |-> YearsOfContext]

\* scaled: max_pages = 300 and max_depth = 5 in scrape_coaching_trees
max_pages == 2
max_depth == 1


(***************************************************************************)
(* Records and dicts.  A Python dict is a sequence of records in insertion *)
(* order, one per key (field id).                                          *)
(***************************************************************************)
Coach(id, name, team, hc) ==
    [id |-> id, name |-> name, current_team |-> team, is_current_hc |-> hc]

Connection(source, target, type, years, context) ==
    [source |-> source, target |-> target, type |-> type, years |-> years,
     context |-> context]

Keys(d) == {d[i].id : i \in 1..Len(d)}

\* d[rec.id] = rec
DictPut(d, rec) ==
    IF rec.id \in Keys(d)
    THEN [i \in 1..Len(d) |-> IF d[i].id = rec.id THEN rec ELSE d[i]]
    ELSE Append(d, rec)

\* s[:n]
Take(s, n) == SubSeq(s, 1, IF Len(s) < n THEN Len(s) ELSE n)

ContextLimit == 300

\* context[:300] if context else None
StoredContext(context) == IF context = <<>> THEN None ELSE Str(Take(context, ContextLimit))

(***************************************************************************)
(* scrape_coaching_trees: seeding (lines 410-432).                         *)
(***************************************************************************)
RECURSIVE SeedCoachesData(_, _)
SeedCoachesData(sl, cd) ==
    IF sl = <<>> THEN cd
    ELSE LET sc == Head(sl)
         IN  SeedCoachesData(Tail(sl),
                 DictPut(cd, Coach(memo.make_id[sc.name], sc.name, sc.team, TRUE)))

SeedQueue(sl) == [i \in 1..Len(sl) |-> <<sl[i].name, sl[i].page_title, sl[i].team, TRUE>>]

SeedDepthMap(sl) == [p \in {sl[i].page_title : i \in 1..Len(sl)} |-> 0]

\* depth_map.get(page_title, 0)
DepthOf(dm, page_title) == IF page_title \in DOMAIN dm THEN dm[page_title] ELSE 0

(***************************************************************************)
(* scrape_coaching_trees: one tuple of tree_members (lines 475-512).       *)
(***************************************************************************)
\* a variant that puts the page's own coach first whatever the role
EdgeEndsPageFirst(relationship, coach_id, linked_id) == <<coach_id, linked_id>>

\* a variant of the membership test that looks up the key in one direction only
IsNewPairOneWay(cset, conn_key) == conn_key \notin cset

\* Direction: mentor -> protege.  <<source_id, target_id>>
EdgeEnds(relationship, coach_id, linked_id) ==
    IF relationship = "mentor" THEN <<linked_id, coach_id>> ELSE <<coach_id, linked_id>>

\* conn_key not in connection_set and reverse_key not in connection_set
IsNewPair(cset, conn_key) ==
    conn_key \notin cset /\ <<conn_key[2], conn_key[1]>> \notin cset

\* a variant of the condition that has no depth ceiling
EnqueuesAnyDepth(vis, linked_page, current_depth) == linked_page \notin vis

\* linked_page not in visited and current_depth + 1 <= max_depth
Enqueues(vis, linked_page, current_depth) ==
    linked_page \notin vis /\ current_depth + 1 <= max_depth

\* st holds connections, connection_set, coaches_data, depth_map, queue
ProcessMember(st, m, coach_id, current_depth, vis) ==
    LET linked_name  == m[1]
        linked_page  == m[2]
        relationship == m[3]
        context      == m[4]
        linked_id    == memo.make_id[linked_name]
        conn_key     == EdgeEnds(relationship, coach_id, linked_id)
        years        == memo.extract_years_from_context[context]
        fresh        == IsNewPair(st.connection_set, conn_key)
        enq          == Enqueues(vis, linked_page, current_depth)
    IN  [connection_set |->
            IF fresh THEN st.connection_set \cup {conn_key} ELSE st.connection_set,
         connections |->
            IF fresh
            THEN Append(st.connections,
                        Connection(conn_key[1], conn_key[2], "coaching_tree", years,
                                   StoredContext(context)))
            ELSE st.connections,
         coaches_data |->
            IF linked_id \notin Keys(st.coaches_data)
            THEN Append(st.coaches_data, Coach(linked_id, linked_name, None, FALSE))
            ELSE st.coaches_data,
         depth_map |->
            IF enq THEN (linked_page :> current_depth + 1) @@ st.depth_map
            ELSE st.depth_map,
         queue |->
            IF enq THEN Append(st.queue, <<linked_name, linked_page, None, FALSE>>)
            ELSE st.queue]

RECURSIVE ProcessMembers(_, _, _, _, _)
\* for linked_name, linked_page, relationship, context in tree_members: ...
ProcessMembers(st, ms, coach_id, current_depth, vis) ==
    IF ms = <<>> THEN st
    ELSE ProcessMembers(ProcessMember(st, Head(ms), coach_id, current_depth, vis),
                        Tail(ms), coach_id, current_depth, vis)

(***************************************************************************)
(* scrape_coaching_trees: cross-reference of career histories and the      *)
(* final filter (lines 521-571).                                           *)
(***************************************************************************)
Max(a, b) == IF a >= b THEN a ELSE b
Min(a, b) == IF a <= b THEN a ELSE b

\* a variant of the condition that lets the placeholder team "Unknown" through
ComparableAnyTeam(ca, cb) ==
    /\ ca.team # "" /\ cb.team # ""
    /\ ca.team = cb.team
    /\ ca.year_start # 0 /\ cb.year_start # 0
    /\ ca.year_end # 0 /\ cb.year_end # 0

\* the condition of lines 528-534: truthy equal teams other than "Unknown", truthy years
Comparable(ca, cb) ==
    /\ ca.team # "" /\ cb.team # ""
    /\ ca.team = cb.team
    /\ ca.team # "Unknown"
    /\ ca.year_start # 0 /\ cb.year_start # 0
    /\ ca.year_end # 0 /\ cb.year_end # 0

overlap_start(ca, cb) == Max(ca.year_start, cb.year_start)
overlap_end(ca, cb) == Min(ca.year_end, cb.year_end)

Overlaps(ca, cb) == Comparable(ca, cb) /\ overlap_start(ca, cb) <= overlap_end(ca, cb)

YearRange(lo, hi) == ToString(lo) \o "-" \o ToString(hi)

\* st holds connections and connection_set
OverlapStep(st, cid_a, cid_b, ca, cb) ==
    IF Overlaps(ca, cb) /\ IsNewPair(st.connection_set, <<cid_a, cid_b>>)
    THEN [connection_set |-> st.connection_set \cup {<<cid_a, cid_b>>},
          connections |->
             Append(st.connections,
                    Connection(cid_a, cid_b, "career_overlap",
                               YearRange(overlap_start(ca, cb), overlap_end(ca, cb)),
                               "Both at " \o ca.team \o " (" \o
                               YearRange(overlap_start(ca, cb), overlap_end(ca, cb))
                               \o ")"))]
    ELSE st

RECURSIVE CrossReference(_, _, _, _, _, _)
\* the four nested loops of lines 524-527, from coach indices i < j and entry indices x, y on
CrossReference(cd, st, i, j, x, y) ==
    IF i > Len(cd) THEN st
    ELSE IF j > Len(cd) THEN CrossReference(cd, st, i + 1, i + 2, 1, 1)
    ELSE IF x > Len(cd[i].career) THEN CrossReference(cd, st, i, j + 1, 1, 1)
    ELSE IF y > Len(cd[j].career) THEN CrossReference(cd, st, i, j, x + 1, 1)
    ELSE CrossReference(cd,
             OverlapStep(st, cd[i].id, cd[j].id, cd[i].career[x], cd[j].career[y]),
             i, j, x, y + 1)

\* connections = [c for c in connections if c["source"] in valid_ids and ...]
ValidConnections(conns, cdata) ==
    SelectSeq(conns, LAMBDA c : c.source \in Keys(cdata) /\ c.target \in Keys(cdata))

connected_ids(conns) == {conns[i].source : i \in 1..Len(conns)}
                          \cup {conns[i].target : i \in 1..Len(conns)}

\* a variant of the filter that keeps connected coaches only
RetainedConnectedOnly(cdata, conns) == cdata.id \in connected_ids(conns)

\* cid in connected_ids or cdata["is_current_hc"]
Retained(cdata, conns) == cdata.id \in connected_ids(conns) \/ cdata.is_current_hc

final_coaches(cd, conns) == SelectSeq(cd, LAMBDA cdata : Retained(cdata, conns))


(***************************************************************************)
(* State one script leaves alone while another runs.                       *)
(***************************************************************************)
NoData == [coaches |-> <<>>, connections |-> <<>>]

NoIter == [name |-> <<>>, page_title |-> None, coach_id |-> None, current_depth |-> 0,
           html |-> "unset", tree_members |-> <<>>]

NoMk == [name |-> <<>>, results |-> <<>>]

NoParser == [current_context |-> "protege", results |-> <<>>]

NoEx == [section |-> <<>>, pos |-> 1, crawl |-> NoParser, klint |-> NoParser]

NoAnalysis == [connections |-> {}, hc_id |-> None, visited |-> {}, frontier |-> {},
               pending |-> {}, next_frontier |-> {}, depth |-> 0]

CrawlIdle ==
    /\ seed_coaches = <<>> /\ coaches_data = <<>> /\ connections = <<>>
    /\ visited = {} /\ career_data = <<>> /\ queue = <<>> /\ connection_set = {}
    /\ depth_map = <<>> /\ total_scraped = 0 /\ iter = NoIter /\ fetch_log = <<>>

(***************************************************************************)
(* scrape_coaching_trees and main of scrape_coaches.py.                    *)
(***************************************************************************)
InitCrawl ==
    /\ memo = Memo
    /\ pc = "crawl"
    /\ seed_coaches \in SeedLists
    /\ coaches_data = SeedCoachesData(seed_coaches, <<>>)
    /\ connections = <<>>
    /\ visited = {}
    /\ career_data = <<>>
    /\ queue = SeedQueue(seed_coaches)
    /\ connection_set = {}
    /\ depth_map = SeedDepthMap(seed_coaches)
    /\ total_scraped = 0
    /\ iter = NoIter
    /\ fetch_log = <<>>
    /\ data = NoData
    /\ runs = <<>>
    /\ mk = NoMk
    /\ ex = NoEx
    /\ analysis = NoAnalysis

\* a variant of the loop condition that lets one more page through
LoopRunsOneMore == queue # <<>> /\ total_scraped <= max_pages

\* while queue and total_scraped < max_pages
LoopRuns == queue # <<>> /\ total_scraped < max_pages

\* a variant of the skip that leaves the entry at the head of the queue
CrawlSkipVisitedKept ==
    /\ pc = "crawl" /\ LoopRuns
    /\ Head(queue)[2] \in visited
    /\ queue' = queue
    /\ iter' = [iter EXCEPT !.name = Head(queue)[1], !.page_title = Head(queue)[2]]
    /\ UNCHANGED <<pc, seed_coaches, coaches_data, connections, visited, career_data,
                   connection_set, depth_map, total_scraped, fetch_log, data, runs, mk, memo, ex, analysis>>

\* if page_title in visited: continue
CrawlSkipVisited ==
    /\ pc = "crawl" /\ LoopRuns
    /\ Head(queue)[2] \in visited
    /\ queue' = Tail(queue)
    /\ iter' = [iter EXCEPT !.name = Head(queue)[1], !.page_title = Head(queue)[2]]
    /\ UNCHANGED <<pc, seed_coaches, coaches_data, connections, visited, career_data,
                   connection_set, depth_map, total_scraped, fetch_log, data, runs, mk, memo, ex, analysis>>

\* a variant of the failed fetch that counts the page as processed
CrawlFetchFailedCounted ==
    /\ pc = "crawl" /\ LoopRuns
    /\ Head(queue)[2] \notin visited
    /\ LET name == Head(queue)[1]
           page_title == Head(queue)[2]
           current_depth == DepthOf(depth_map, page_title)
       IN  /\ queue' = Tail(queue)
           /\ visited' = visited \cup {page_title}
           /\ iter' = [iter EXCEPT !.name = name, !.page_title = page_title,
                                   !.coach_id = memo.make_id[name],
                                   !.current_depth = current_depth, !.html = "None"]
           /\ fetch_log' = Append(fetch_log, [page_title |-> page_title,
                                              depth |-> current_depth, ok |-> FALSE])
           /\ total_scraped' = total_scraped + 1
    /\ UNCHANGED <<pc, seed_coaches, coaches_data, connections, career_data,
                   connection_set, depth_map, data, runs, mk, memo, ex, analysis>>

\* a variant of the failed fetch that does not mark the page as visited
CrawlFetchFailedForgotten ==
    /\ pc = "crawl" /\ LoopRuns
    /\ Head(queue)[2] \notin visited
    /\ LET name == Head(queue)[1]
           page_title == Head(queue)[2]
           current_depth == DepthOf(depth_map, page_title)
       IN  /\ queue' = Tail(queue)
           /\ iter' = [iter EXCEPT !.name = name, !.page_title = page_title,
                                   !.coach_id = memo.make_id[name],
                                   !.current_depth = current_depth, !.html = "None"]
           /\ fetch_log' = Append(fetch_log, [page_title |-> page_title,
                                              depth |-> current_depth, ok |-> FALSE])
    /\ UNCHANGED <<pc, seed_coaches, coaches_data, connections, visited, career_data,
                   connection_set, depth_map, total_scraped, data, runs, mk, memo, ex, analysis>>

\* fetch_page_html returned None (or empty markup): "Skipped (no HTML)", continue
CrawlFetchFailed ==
    /\ pc = "crawl" /\ LoopRuns
    /\ Head(queue)[2] \notin visited
    /\ LET name == Head(queue)[1]
           page_title == Head(queue)[2]
           current_depth == DepthOf(depth_map, page_title)
       IN  /\ queue' = Tail(queue)
           /\ visited' = visited \cup {page_title}
           /\ iter' = [iter EXCEPT !.name = name, !.page_title = page_title,
                                   !.coach_id = memo.make_id[name],
                                   !.current_depth = current_depth, !.html = "None"]
           /\ fetch_log' = Append(fetch_log, [page_title |-> page_title,
                                              depth |-> current_depth, ok |-> FALSE])
    /\ UNCHANGED <<pc, seed_coaches, coaches_data, connections, career_data,
                   connection_set, depth_map, total_scraped, data, runs, mk, memo, ex, analysis>>

\* the page was fetched: lines 455-519
CrawlProcessPage ==
    /\ pc = "crawl" /\ LoopRuns
    /\ Head(queue)[2] \notin visited
    /\ \E html \in PageContents :
         LET name == Head(queue)[1]
             page_title == Head(queue)[2]
             team == Head(queue)[3]
             is_current == Head(queue)[4]
             vis == visited \cup {page_title}
             current_depth == DepthOf(depth_map, page_title)
             coach_id == memo.make_id[name]
             registered == IF coach_id \notin Keys(coaches_data)
                           THEN Append(coaches_data, Coach(coach_id, name, team, is_current))
                           ELSE coaches_data
             st == ProcessMembers([connections |-> connections,
                                   connection_set |-> connection_set,
                                   coaches_data |-> registered,
                                   depth_map |-> depth_map,
                                   queue |-> Tail(queue)],
                                  html.tree_members, coach_id, current_depth, vis)
         IN  /\ visited' = vis
             /\ total_scraped' = total_scraped + 1
             /\ career_data' = IF html.career # <<>>
                               THEN DictPut(career_data, [id |-> coach_id, career |-> html.career])
                               ELSE career_data
             /\ connections' = st.connections
             /\ connection_set' = st.connection_set
             /\ coaches_data' = st.coaches_data
             /\ depth_map' = st.depth_map
             /\ queue' = st.queue
             /\ iter' = [name |-> name, page_title |-> page_title, coach_id |-> coach_id,
                         current_depth |-> current_depth, html |-> "html",
                         tree_members |-> html.tree_members]
             /\ fetch_log' = Append(fetch_log, [page_title |-> page_title,
                                                depth |-> current_depth, ok |-> TRUE])
    /\ UNCHANGED <<pc, seed_coaches, data, runs, mk, memo, ex, analysis>>

\* the loop has ended: cross-reference, filter, return; main() writes the file
CrawlReturn ==
    /\ pc = "crawl" /\ ~LoopRuns
    /\ LET st == CrossReference(career_data,
                                [connections |-> connections,
                                 connection_set |-> connection_set], 1, 2, 1, 1)
           kept == ValidConnections(st.connections, coaches_data)
       IN  data' = [coaches |-> final_coaches(coaches_data, kept), connections |-> kept]
    /\ pc' = "patch"
    \* the locals of scrape_coaching_trees end with the call; the seed list and what
    \* the run printed about its fetches remain
    /\ coaches_data' = <<>> /\ connections' = <<>> /\ visited' = {}
    /\ career_data' = <<>> /\ queue' = <<>> /\ connection_set' = {}
    /\ depth_map' = <<>> /\ iter' = NoIter
    /\ UNCHANGED <<seed_coaches, total_scraped, fetch_log, runs, mk, memo, ex, analysis>>

NextCrawl == CrawlSkipVisited \/ CrawlFetchFailed \/ CrawlProcessPage \/ CrawlReturn


(***************************************************************************)
(* patch_klint_kubiak.py: main.                                            *)
(***************************************************************************)
klint_id == "klint-kubiak"

\* existing_ids = {c["id"] for c in data["coaches"]}
IdsOf(coaches) == {coaches[i].id : i \in 1..Len(coaches)}

\* existing_conns = {(c["source"], c["target"]) for c in data["connections"]}
PairsOf(conns) == {<<conns[i].source, conns[i].target>> : i \in 1..Len(conns)}

\* Remove any stale entry if re-running
WithoutKlintCoach(coaches) == SelectSeq(coaches, LAMBDA c : c.id # klint_id)

WithoutKlintConnections(conns) ==
    SelectSeq(conns, LAMBDA c : c.source # klint_id /\ c.target # klint_id)

\* one tuple of tree_members (lines 240-266);
\* st holds coaches, new_connections, existing_conns, existing_ids
KlintMember(st, m) ==
    LET linked_name  == m[1]
        relationship == m[3]
        context      == m[4]
        linked_id    == memo.make_id[linked_name]
        key          == EdgeEnds(relationship, klint_id, linked_id)
        years        == memo.extract_years_from_context[context]
        fresh        == IsNewPair(st.existing_conns, key)
        unknown      == linked_id \notin st.existing_ids
    IN  [new_connections |->
            IF fresh
            THEN Append(st.new_connections,
                        Connection(key[1], key[2], "coaching_tree", years,
                                   StoredContext(context)))
            ELSE st.new_connections,
         existing_conns |-> IF fresh THEN st.existing_conns \cup {key} ELSE st.existing_conns,
         coaches |->
            IF unknown THEN Append(st.coaches, Coach(linked_id, linked_name, None, FALSE))
            ELSE st.coaches,
         existing_ids |-> IF unknown THEN st.existing_ids \cup {linked_id} ELSE st.existing_ids]

RECURSIVE KlintMembers(_, _)
KlintMembers(st, ms) ==
    IF ms = <<>> THEN st ELSE KlintMembers(KlintMember(st, Head(ms)), Tail(ms))

\* the known manual connections: (source, target, type, years, context)
manual ==
    << <<"gary-kubiak", klint_id, "coaching_tree", None,
         "Son and coaching protege of Gary Kubiak">> >>

\* lines 281-292 for one entry of manual
KlintManual(st, e) ==
    IF IsNewPair(st.existing_conns, <<e[1], e[2]>>)
    THEN [st EXCEPT !.new_connections = Append(@, Connection(e[1], e[2], e[3], e[4], e[5])),
                    !.existing_conns = @ \cup {<<e[1], e[2]>>}]
    ELSE st

RECURSIVE KlintManuals(_, _)
KlintManuals(st, es) ==
    IF es = <<>> THEN st ELSE KlintManuals(KlintManual(st, Head(es)), Tail(es))

\* main() of patch_klint_kubiak.py on the loaded dataset d when fetch_page_html
\* returns html (with these tree members) or None: the dataset it writes and the
\* connections it reports as added
PatchKlint(d, html) ==
    LET start == [coaches |-> Append(WithoutKlintCoach(d.coaches),
                                     Coach(klint_id, KlintKubiak, "Las Vegas Raiders", TRUE)),
                  new_connections |-> <<>>,
                  existing_conns |-> PairsOf(d.connections),
                  existing_ids |-> IdsOf(d.coaches)]
        scraped == IF html.kind = "html" THEN KlintMembers(start, html.tree_members)
                   ELSE start
        done == KlintManuals(scraped, manual)
    IN  [data |-> [coaches |-> done.coaches,
                   connections |-> WithoutKlintConnections(d.connections)
                                     \o done.new_connections],
         conns_added |-> Len(done.new_connections)]

(***************************************************************************)
(* patch_missing_connections.py: main (the dataset part, lines 76-126).    *)
(***************************************************************************)
NEW_COACHES ==
    <<
       Coach("greg-schiano",
             <<"G","r","e","g"," ","S","c","h","i","a","n","o">>,
             None, FALSE),
       Coach("marty-schottenheimer",
             <<"M","a","r","t","y"," ","S","c","h","o","t","t","e","n","h","e","i","m","e","r">>,
             None, FALSE),
       Coach("mike-ditka",
             <<"M","i","k","e"," ","D","i","t","k","a">>,
             None, FALSE),
       Coach("bill-callahan",
             <<"B","i","l","l"," ","C","a","l","l","a","h","a","n">>,
             None, FALSE)
    >>

\* (source/mentor, target/protege, context)
NEW_CONNECTIONS ==
    <<
       <<"joe-philbin", "ben-johnson",
         "Worked under Joe Philbin with the Dolphins">>,
       <<"matt-patricia", "ben-johnson",
         "Worked under Matt Patricia with the Lions">>,
       <<"dan-campbell", "ben-johnson",
         "Worked under Dan Campbell with the Lions">>,
       <<"adam-gase", "ben-johnson",
         "Worked under Adam Gase with the Dolphins">>,
       <<"matt-lafleur", "jeff-hafley",
         "Worked together in the NFL">>,
       <<"greg-schiano", "jeff-hafley",
         "Worked under Greg Schiano">>,
       <<"mike-ditka", "jim-harbaugh",
         "Jim Harbaugh played for Mike Ditka with the Chicago Bears (1987" \o EnDash \o "1993)">>,
       <<"ted-marchibroda", "jim-harbaugh",
         "Jim Harbaugh played for Ted Marchibroda with the Indianapolis Colts (1994" \o EnDash \o "1997)">>,
       <<"brian-billick", "jim-harbaugh",
         "Jim Harbaugh played for Brian Billick with the Baltimore Ravens (1998)">>,
       <<"george-seifert", "jim-harbaugh",
         "Jim Harbaugh played for George Seifert with the Carolina Panthers (2001)">>,
       <<"bill-callahan", "jim-harbaugh",
         "Jim Harbaugh coached under Bill Callahan with the Oakland Raiders (2002" \o EnDash \o "2003)">>,
       <<"mike-zimmer", "kevin-stefanski",
         "Worked under Mike Zimmer with the Vikings">>,
       <<"gary-kubiak", "kevin-stefanski",
         "Worked under Gary Kubiak with the Vikings">>,
       <<"kyle-shanahan", "matt-lafleur",
         "Worked under Kyle Shanahan">>,
       <<"sean-mcvay", "matt-lafleur",
         "Worked alongside Sean McVay with the Rams">>,
       <<"kyle-shanahan", "mike-lafleur",
         "Worked under Kyle Shanahan with the 49ers">>,
       <<"bill-walsh", "mike-mccarthy",
         "Worked under Bill Walsh">>,
       <<"marty-schottenheimer", "mike-mccarthy",
         "Worked under Marty Schottenheimer with the Chiefs">>
    >>

\* a variant that takes every listed coach for a missing one
CoachAlwaysMissing(existing_ids, coach) == TRUE

\* if coach["id"] not in existing_ids
CoachMissing(existing_ids, coach) == coach.id \notin existing_ids

\* st holds coaches, connections, existing_ids, existing_conns, coaches_added, conns_added
MissingCoach(st, coach) ==
    IF CoachMissing(st.existing_ids, coach)
    THEN [st EXCEPT !.coaches = Append(@, coach),
                    !.existing_ids = @ \cup {coach.id},
                    !.coaches_added = @ + 1]
    ELSE st

RECURSIVE MissingCoaches(_, _)
MissingCoaches(st, cs) ==
    IF cs = <<>> THEN st ELSE MissingCoaches(MissingCoach(st, Head(cs)), Tail(cs))

\* lines 98-122 for one entry of NEW_CONNECTIONS
MissingConnection(st, e) ==
    LET source == e[1]
        target == e[2]
        context == e[3]
    IN  IF ~IsNewPair(st.existing_conns, <<source, target>>) THEN st
        ELSE IF source \notin st.existing_ids THEN st
        ELSE IF target \notin st.existing_ids THEN st
        ELSE [st EXCEPT !.connections =
                            Append(@, Connection(source, target, "coaching_tree", None, context)),
                        !.existing_conns = @ \cup {<<source, target>>},
                        !.conns_added = @ + 1]

RECURSIVE MissingConnections(_, _)
MissingConnections(st, es) ==
    IF es = <<>> THEN st
    ELSE MissingConnections(MissingConnection(st, Head(es)), Tail(es))

PatchMissing(d) ==
    LET start == [coaches |-> d.coaches, connections |-> d.connections,
                  existing_ids |-> IdsOf(d.coaches),
                  existing_conns |-> PairsOf(d.connections),
                  coaches_added |-> 0, conns_added |-> 0]
        done == MissingConnections(MissingCoaches(start, NEW_COACHES), NEW_CONNECTIONS)
    IN  [data |-> [coaches |-> done.coaches, connections |-> done.connections],
         coaches_added |-> done.coaches_added,
         conns_added |-> done.conns_added]


(***************************************************************************)
(* Runs of the patch scripts on the persisted dataset.                     *)
(***************************************************************************)
\* what fetch_page_html("Klint Kubiak") of patch_klint_kubiak.py can do: return
\* html, return None, or raise (requests raises on a timeout, a transport error
\* and, through raise_for_status, on a non-200 answer; nothing catches it)
KlintFetches ==
    {[kind |-> "html", tree_members |-> ms] : ms \in KlintTreeMemberLists}
      \cup {[kind |-> "None", tree_members |-> <<>>]}

FetchRaised == [kind |-> "raise", tree_members |-> <<>>]
NoFetch == [kind |-> "no fetch", tree_members |-> <<>>]

MaxRuns == 2

\* patch_klint_kubiak.py runs to its end and writes the dataset
RunPatchKlint ==
    /\ pc = "patch" /\ Len(runs) < MaxRuns
    /\ \E html \in KlintFetches :
         LET r == PatchKlint(data, html)
         IN  /\ data' = r.data
             /\ runs' = Append(runs, [script |-> "klint", fetch |-> html, wrote |-> TRUE,
                                      conns_added |-> r.conns_added])
    /\ UNCHANGED <<pc, mk, memo, ex, analysis>> /\ UNCHANGED crawlVars

\* fetch_page_html raises: main() ends at line 226, after the load and before the write
RunPatchKlintRaised ==
    /\ pc = "patch" /\ Len(runs) < MaxRuns
    /\ runs' = Append(runs, [script |-> "klint", fetch |-> FetchRaised, wrote |-> FALSE,
                             conns_added |-> 0])
    /\ UNCHANGED <<pc, data, mk, memo, ex, analysis>> /\ UNCHANGED crawlVars

\* patch_missing_connections.py
RunPatchMissing ==
    /\ pc = "patch" /\ Len(runs) < MaxRuns
    /\ LET r == PatchMissing(data)
       IN  /\ data' = r.data
           /\ runs' = Append(runs, [script |-> "missing", fetch |-> NoFetch, wrote |-> TRUE,
                                    conns_added |-> r.conns_added])
    /\ UNCHANGED <<pc, mk, memo, ex, analysis>> /\ UNCHANGED crawlVars

NextPatch == RunPatchKlint \/ RunPatchKlintRaised \/ RunPatchMissing

(***************************************************************************)
(* A persisted dataset as a patch script may find it.                      *)
(***************************************************************************)
LoadedCoaches ==
    << Coach("jim-harbaugh", JimHarbaugh, "Los Angeles Chargers", TRUE),
       Coach("kevin-stefanski", KevinStefanski, "Cleveland Browns", TRUE),
       Coach("gary-kubiak", GaryKubiak, None, FALSE),
       Coach(klint_id, KlintKubiak, "Las Vegas Raiders", TRUE) >>

LoadedPairs ==
    { <<"gary-kubiak", klint_id>>, <<klint_id, "gary-kubiak">>,
      <<"gary-kubiak", "kevin-stefanski">>, <<"kevin-stefanski", "gary-kubiak">>,
      <<klint_id, "kevin-stefanski">>, <<"jim-harbaugh", "gary-kubiak">> }

MaxLoadedConns == 2

LoadedDatasets ==
    {[coaches |-> SelectSeq(LoadedCoaches, LAMBDA c : c.id \in ids),
      connections |-> [i \in 1..Len(ps) |->
                          Connection(ps[i][1], ps[i][2], "coaching_tree", None, None)]] :
        ids \in SUBSET IdsOf(LoadedCoaches), ps \in SeqsUpTo(LoadedPairs, MaxLoadedConns)}

InitLoaded ==
    /\ memo = Memo
    /\ pc = "patch"
    /\ CrawlIdle
    /\ data \in LoadedDatasets
    /\ runs = <<>>
    /\ mk = NoMk
    /\ ex = NoEx
    /\ analysis = NoAnalysis

SpecPatch == InitLoaded /\ [][NextPatch]_vars

\* the crawl writes the dataset, and the patch scripts are then run on it
Init == InitCrawl

Next == NextCrawl \/ NextPatch

Spec == Init /\ [][Next]_vars

\* the interpreter keeps running the loop: an iteration that can be taken is taken
\* (each call of fetch_page_html ends, by its answer or by its timeout of 30 s)
SpecLive == Spec /\ WF_vars(NextCrawl)


(***************************************************************************)
(* make_id applied to a name and to its own result.                        *)
(***************************************************************************)
NameAlphabet == {"A", "b", "7", " ", "\n", "(", ")", "-", "."}

MaxNameLen == 4

InitMakeId ==
    /\ memo = Memo
    /\ pc = "make_id"
    /\ CrawlIdle
    /\ data = NoData
    /\ runs = <<>>
    /\ mk \in {[name |-> n, results |-> <<>>] : n \in SeqsUpTo(NameAlphabet, MaxNameLen)}
    /\ ex = NoEx
    /\ analysis = NoAnalysis

\* make_id(name), then make_id of what it returned
MakeIdCall ==
    /\ pc = "make_id" /\ Len(mk.results) < 2
    /\ mk' = [mk EXCEPT !.results =
                Append(@, make_id(IF @ = <<>> THEN mk.name ELSE @[Len(@)]))]
    /\ UNCHANGED <<pc, data, runs, memo, ex, analysis>> /\ UNCHANGED crawlVars

SpecMakeId == InitMakeId /\ [][MakeIdCall]_vars

(***************************************************************************)
(* The cross-reference of career histories (lines 521-548) on the career   *)
(* histories and coaching-tree edges a crawl loop can leave behind.        *)
(***************************************************************************)
CareerCoaches == <<"jim-harbaugh", "gary-kubiak", "kevin-stefanski">>

CareerEntries ==
    { CareerEntry("Vikings", 2006, 2010),
      CareerEntry("Vikings", 2008, 2014),
      CareerEntry("Vikings", 2011, 2014),
      CareerEntry("Unknown", 2006, 2010),
      CareerEntry("Vikings", 0, 2010) }

\* the career lists of all coaches together hold at most this many entries
MaxCareerEntries == 3

RECURSIVE TotalEntries(_)
TotalEntries(cd) == IF cd = <<>> THEN 0 ELSE Len(Head(cd).career) + TotalEntries(Tail(cd))

RECURSIVE CareerDatas(_, _)
\* the dicts coach_id -> non-empty career over the first n coaches, with at most
\* budget entries in all
CareerDatas(n, budget) ==
    IF n = 0 THEN {<<>>}
    ELSE {Append(cd, [id |-> CareerCoaches[n], career |-> career]) :
             cd \in CareerDatas(n - 1, budget - 1),
             career \in SeqsUpTo(CareerEntries, budget - (n - 1)) \ {<<>>}}

CareerInputs ==
    {cd \in CareerDatas(2, MaxCareerEntries) \cup CareerDatas(3, MaxCareerEntries) :
        TotalEntries(cd) <= MaxCareerEntries}

\* coaching-tree edges the loop found before: sets of keys with no pair twice
PriorEdgeSets == SUBSET {<<"gary-kubiak", "jim-harbaugh">>, <<"jim-harbaugh", "kevin-stefanski">>}

SetToSeq(S) == CHOOSE q \in [1..Cardinality(S) -> S] : Range(q) = S

InitOverlap ==
    /\ memo = Memo
    /\ pc = "cross-reference"
    /\ seed_coaches = <<>>
    /\ career_data \in CareerInputs
    /\ connection_set \in PriorEdgeSets
    /\ connections = [i \in 1..Cardinality(connection_set) |->
                        Connection(SetToSeq(connection_set)[i][1],
                                   SetToSeq(connection_set)[i][2],
                                   "coaching_tree", None, None)]
    /\ coaches_data = [i \in 1..3 |-> Coach(CareerCoaches[i], <<>>, None, FALSE)]
    /\ visited = {} /\ queue = <<>> /\ depth_map = <<>> /\ total_scraped = 0
    /\ iter = NoIter /\ fetch_log = <<>>
    /\ data = NoData
    /\ runs = <<>>
    /\ mk = NoMk
    /\ ex = NoEx
    /\ analysis = NoAnalysis

\* lines 521-548 on these career histories
CrossReferenceCareers ==
    /\ pc = "cross-reference"
    /\ LET st == CrossReference(career_data,
                                [connections |-> connections,
                                 connection_set |-> connection_set], 1, 2, 1, 1)
       IN  /\ connection_set' = st.connection_set
           /\ connections' = st.connections
    /\ pc' = "cross-referenced"
    /\ UNCHANGED <<seed_coaches, coaches_data, visited, career_data, queue, depth_map,
                   total_scraped, iter, fetch_log, data, runs, mk, memo, ex, analysis>>

SpecOverlap == InitOverlap /\ [][CrossReferenceCareers]_vars


(***************************************************************************)
(* parse_coaching_tree_section of scrape_coaches.py and of                 *)
(* patch_klint_kubiak.py, with is_person_link and SKIP_LINK_WORDS of each. *)
(* A section is the sequence of the p, ul and ol elements found after the  *)
(* heading; an element is the sequence of its strings, and a string of a   *)
(* list item may be the text of a link.                                    *)
(***************************************************************************)
\* U+00E9 LATIN SMALL LETTER E WITH ACUTE, written as one character of a text
EAcute == "u00e9"

\* w in s
Contains(s, w) == \E i \in 1..(Len(s) - Len(w) + 1) : SubSeq(s, i, i + Len(w) - 1) = w

\* s.lower()
LowerText(s) == [i \in 1..Len(s) |-> Lower(s[i])]

RECURSIVE get_text(_)
\* elem.get_text(strip=True): the strings of the element, each stripped, joined
get_text(strings) ==
    IF strings = <<>> THEN <<>> ELSE Strip(Head(strings)) \o get_text(Tail(strings))

\* len(link_text.split())
WordCount(s) ==
    Cardinality({i \in 1..Len(s) : s[i] \notin Whitespace /\ (i = 1 \/ s[i - 1] \in Whitespace)})

SKIP_LINK_WORDS ==
    { <<"c","o","a","c","h">>,
      <<"f","o","o","t","b","a","l","l">>,
      <<"l","e","a","g","u","e">>,
      <<"t","e","a","m">>,
      <<"b","o","w","l">>,
      <<"s","e","a","s","o","n">>,
      <<"s","t","a","d","i","u","m">>,
      <<"u","n","i","v","e","r","s","i","t","y">>,
      <<"c","o","l","l","e","g","e">>,
      <<"s","c","h","o","o","l">>,
      <<"c","o","n","f","e","r","e","n","c","e">>,
      <<"n","a","t","i","o","n","a","l">>,
      <<"a","m","e","r","i","c","a","n">>,
      <<"p","r","o"," ","b","o","w","l">>,
      <<"s","u","p","e","r"," ","b","o","w","l">>,
      <<"n","f","l">>,
      <<"a","f","l">>,
      <<"a","f","c">>,
      <<"n","f","c">>,
      <<"d","i","v","i","s","i","o","n">>,
      <<"p","l","a","y","o","f","f">>,
      <<"d","r","a","f","t">>,
      <<"h","a","l","l"," ","o","f"," ","f","a","m","e">>,
      <<"c","o","u","g","a","r","s">>,
      <<"g","a","t","o","r","s">>,
      <<"b","e","a","r","s">>,
      <<"t","i","g","e","r","s">>,
      <<"l","u","m","b","e","r","j","a","c","k","s">>,
      <<"m","i","n","e","r","s">>,
      <<"p","a","c","k","e","r","s">>,
      <<"v","i","k","i","n","g","s">>,
      <<"f","a","l","c","o","n","s">>,
      <<"r","a","v","e","n","s">>,
      <<"b","i","l","l","s">>,
      <<"p","a","n","t","h","e","r","s">>,
      <<"b","e","n","g","a","l","s">>,
      <<"b","r","o","w","n","s">>,
      <<"c","o","w","b","o","y","s">>,
      <<"b","r","o","n","c","o","s">>,
      <<"l","i","o","n","s">>,
      <<"t","e","x","a","n","s">>,
      <<"c","o","l","t","s">>,
      <<"j","a","g","u","a","r","s">>,
      <<"c","h","i","e","f","s">>,
      <<"r","a","i","d","e","r","s">>,
      <<"c","h","a","r","g","e","r","s">>,
      <<"r","a","m","s">>,
      <<"d","o","l","p","h","i","n","s">>,
      <<"p","a","t","r","i","o","t","s">>,
      <<"s","a","i","n","t","s">>,
      <<"g","i","a","n","t","s">>,
      <<"j","e","t","s">>,
      <<"e","a","g","l","e","s">>,
      <<"s","t","e","e","l","e","r","s">>,
      <<"4","9","e","r","s">>,
      <<"s","e","a","h","a","w","k","s">>,
      <<"b","u","c","c","a","n","e","e","r","s">>,
      <<"t","i","t","a","n","s">>,
      <<"c","o","m","m","a","n","d","e","r","s">>,
      <<"r","e","d","s","k","i","n","s">>,
      <<"o","i","l","e","r","s">> }

KlintSKIP_LINK_WORDS ==
    { <<"c","o","a","c","h">>,
      <<"f","o","o","t","b","a","l","l">>,
      <<"l","e","a","g","u","e">>,
      <<"t","e","a","m">>,
      <<"b","o","w","l">>,
      <<"s","e","a","s","o","n">>,
      <<"s","t","a","d","i","u","m">>,
      <<"u","n","i","v","e","r","s","i","t","y">>,
      <<"c","o","l","l","e","g","e">>,
      <<"s","c","h","o","o","l">>,
      <<"c","o","n","f","e","r","e","n","c","e">>,
      <<"n","a","t","i","o","n","a","l">>,
      <<"a","m","e","r","i","c","a","n">>,
      <<"p","r","o"," ","b","o","w","l">>,
      <<"s","u","p","e","r"," ","b","o","w","l">>,
      <<"n","f","l">>,
      <<"a","f","l">>,
      <<"a","f","c">>,
      <<"n","f","c">>,
      <<"d","i","v","i","s","i","o","n">>,
      <<"p","l","a","y","o","f","f">>,
      <<"d","r","a","f","t">>,
      <<"h","a","l","l"," ","o","f"," ","f","a","m","e">> }

\* is_person_link(link_text), with the SKIP_LINK_WORDS of the file it stands in
PersonLink(link_text, skip_words) ==
    /\ WordCount(link_text) >= 2
    /\ \E lower \in {LowerText(link_text)} : \A skip \in skip_words : ~Contains(lower, skip)
    /\ \A i \in 1..Len(link_text) : link_text[i] \notin Digits

\* a variant of the paragraph rule that tests the protege wordings first
ParagraphContextProtegeFirst(p_text, current_context) ==
    IF /\ Contains(p_text, <<"a","s","s","i","s","t","a","n","t">>)
       /\ (Contains(p_text, <<"h","e","a","d"," ","c","o","a","c","h">>) \/ Contains(p_text, <<"b","e","c","o","m","e">>))
    THEN "protege"
    ELSE IF Contains(p_text, <<"p","r","o","t",EAcute,"g",EAcute>>) \/ Contains(p_text, <<"p","r","o","t","e","g","e">>)
    THEN "protege"
    ELSE IF \/ Contains(p_text, <<"s","e","r","v","e","d"," ","u","n","d","e","r">>)
            \/ Contains(p_text, <<"w","o","r","k","e","d"," ","u","n","d","e","r">>)
    THEN "mentor"
    ELSE current_context

\* the if/elif chain on p_text (scrape_coaches.py lines 296-301)
ParagraphContext(p_text, current_context) ==
    IF \/ Contains(p_text, <<"s","e","r","v","e","d"," ","u","n","d","e","r">>)
       \/ Contains(p_text, <<"h","a","s"," ","s","e","r","v","e","d"," ","u","n","d","e","r">>)
       \/ Contains(p_text, <<"w","o","r","k","e","d"," ","u","n","d","e","r">>)
    THEN "mentor"
    ELSE IF /\ Contains(p_text, <<"a","s","s","i","s","t","a","n","t">>)
            /\ (Contains(p_text, <<"h","e","a","d"," ","c","o","a","c","h">>) \/ Contains(p_text, <<"b","e","c","o","m","e">>))
    THEN "protege"
    ELSE IF Contains(p_text, <<"p","r","o","t",EAcute,"g",EAcute>>) \/ Contains(p_text, <<"p","r","o","t","e","g","e">>)
    THEN "protege"
    ELSE current_context

\* the if/elif chain on p_text (patch_klint_kubiak.py lines 123-128)
KlintParagraphContext(p_text, current_context) ==
    IF Contains(p_text, <<"s","e","r","v","e","d"," ","u","n","d","e","r">>) \/ Contains(p_text, <<"w","o","r","k","e","d"," ","u","n","d","e","r">>)
    THEN "mentor"
    ELSE IF /\ Contains(p_text, <<"a","s","s","i","s","t","a","n","t">>)
            /\ (Contains(p_text, <<"h","e","a","d"," ","c","o","a","c","h">>) \/ Contains(p_text, <<"b","e","c","o","m","e">>))
    THEN "protege"
    ELSE IF Contains(p_text, <<"p","r","o","t",EAcute,"g",EAcute>>) \/ Contains(p_text, <<"p","r","o","t","e","g","e">>)
    THEN "protege"
    ELSE current_context

\* a string of a list item: its text, and what extract_link_title returns for the
\* <a> it is the text of ("no link" when it is plain text, None for a link that
\* leads to no article)
Text(text) == [text |-> text, title |-> "no link"]
Link(text, title) == [text |-> text, title |-> title]

\* li.get_text(strip=True)
LiText(li) == get_text([i \in 1..Len(li) |-> li[i].text])

\* the first link of the list item with a title and a person's name for its text
\* (0 when there is none)
FirstPersonLink(li, skip_words) ==
    LET ok == {i \in 1..Len(li) :
                  /\ li[i].title \notin {"no link", None}
                  /\ PersonLink(Strip(li[i].text), skip_words)}
    IN  IF ok = {} THEN 0 ELSE CHOOSE i \in ok : \A j \in ok : i <= j

\* relationship = current_context, "mentor" when the item says so itself
Relationship(li_text, current_context) ==
    IF \E li_lower \in {LowerText(li_text)} :
          \/ Contains(li_lower, <<"s","e","r","v","e","d"," ","u","n","d","e","r">>)
          \/ Contains(li_lower, <<"w","o","r","k","e","d"," ","u","n","d","e","r">>)
    THEN "mentor"
    ELSE current_context

SnippetLimit == 200

RECURSIVE ListResults(_, _, _, _)
\* for li in list_items: ... results.append((link_text, title, relationship, li_text[:200]))
ListResults(results, items, current_context, skip_words) ==
    IF items = <<>> THEN results
    ELSE LET li == Head(items)
             k == FirstPersonLink(li, skip_words)
         IN  ListResults(IF k = 0 THEN results
                         ELSE Append(results,
                                     <<Strip(li[k].text), li[k].title,
                                       Relationship(LiText(li), current_context),
                                       Take(LiText(li), SnippetLimit)>>),
                         Tail(items), current_context, skip_words)

(***************************************************************************)
(* The two parsers at work on one section, element by element.             *)
(***************************************************************************)
Paragraph(strings) == [tag |-> "p", strings |-> strings]
List(items) == [tag |-> "ul", items |-> items]

ParagraphOptions ==
    { Paragraph(<<<<"H","e"," ","l","a","t","e","r"," ","s","e","r","v","e","d"," ","u","n","d","e","r"," ">>, <<"B","i","l","l"," ","B","e","l","i","c","h","i","c","k">>, <<".">>>>),
      Paragraph(<<<<"A","s","s","i","s","t","a","n","t","s"," ","w","h","o"," ","h","a","v","e"," ","b","e","c","o","m","e"," ","h","e","a","d"," ","c","o","a","c","h","e","s",":">>>>),
      Paragraph(<<<<"H","i","s"," ","p","r","o","t",EAcute,"g",EAcute,"s",":">>>>),
      Paragraph(<<<<"A","s","s","i","s","t","a","n","t"," ","h","e","a","d"," ","c","o","a","c","h"," ","w","h","o"," ","W","o","r","k","e","d"," ","U","n","d","e","r"," ">>, <<"A","n","d","y"," ","R","e","i","d">>>>),
      Paragraph(<<<<"A","n"," ","a","s","s","i","s","t","a","n","t">>>>) }

ListItemOptions ==
    { <<Link(<<"e","d","i","t">>, None), Link(<<"B","i","l","l"," ","B","e","l","i","c","h","i","c","k">>, "Bill Belichick")>>,
      <<Text(<<"S","e","r","v","e","d"," ","u","n","d","e","r"," ">>), Link(<<"A","n","d","y"," ","R","e","i","d">>, "Andy Reid"), Text(<<" ","(","1","9","9","9",EnDash,"2","0","1","2",")">>)>>,
      <<Link(<<"C","l","e","v","e","l","a","n","d"," ","B","r","o","w","n","s">>, "Cleveland Browns"), Text(<<","," ">>),
        Link(<<"K","e","v","i","n"," ","S","t","e","f","a","n","s","k","i">>, "Kevin Stefanski")>>,
      <<Link(<<"2","0","2","0"," ","s","e","a","s","o","n">>, "2020 NFL season")>> }

MaxItems == 2

ListOptions == {List(items) : items \in SeqsUpTo(ListItemOptions, MaxItems) \ {<<>>}}

MaxElems == 3

Sections == SeqsUpTo(ParagraphOptions \cup ListOptions, MaxElems)

InitExtract ==
    /\ memo = Memo
    /\ pc = "extract"
    /\ CrawlIdle
    /\ data = NoData
    /\ runs = <<>>
    /\ mk = NoMk
    /\ ex \in {[section |-> sec, pos |-> 1, crawl |-> NoParser, klint |-> NoParser] :
                  sec \in Sections}
    /\ analysis = NoAnalysis

\* if elem.name == "p": ...; continue
ExtractParagraph ==
    /\ pc = "extract" /\ ex.pos <= Len(ex.section)
    /\ ex.section[ex.pos].tag = "p"
    /\ \E p_text \in {LowerText(get_text(ex.section[ex.pos].strings))} :
           ex' = [ex EXCEPT !.pos = @ + 1,
                            !.crawl.current_context = ParagraphContext(p_text, @),
                            !.klint.current_context = KlintParagraphContext(p_text, @)]
    /\ UNCHANGED <<pc, data, runs, mk, memo, analysis>> /\ UNCHANGED crawlVars

\* list_items = elem.find_all("li"); for li in list_items: ...
ExtractList ==
    /\ pc = "extract" /\ ex.pos <= Len(ex.section)
    /\ ex.section[ex.pos].tag \in {"ul", "ol"}
    /\ LET items == ex.section[ex.pos].items
       IN  ex' = [ex EXCEPT !.pos = @ + 1,
                            !.crawl.results =
                               ListResults(@, items, ex.crawl.current_context,
                                           SKIP_LINK_WORDS),
                            !.klint.results =
                               ListResults(@, items, ex.klint.current_context,
                                           KlintSKIP_LINK_WORDS)]
    /\ UNCHANGED <<pc, data, runs, mk, memo, analysis>> /\ UNCHANGED crawlVars

NextExtract == ExtractParagraph \/ ExtractList

SpecExtract == InitExtract /\ [][NextExtract]_vars

(***************************************************************************)
(* patch_missing_connections.py, step 6: the depth analysis.  For each      *)
(* current head coach it walks the connections from target to source,      *)
(* level by level.  frontier and next_frontier are Python sets: the order   *)
(* in which "for node in frontier" yields the nodes depends on the string   *)
(* hashes of the run, so the node taken next is any node not yet yielded    *)
(* (pending).                                                               *)
(***************************************************************************)

\* mentors_of.setdefault(conn["target"], set()).add(conn["source"]);
\* mentors_of.get(node, [])
mentors_of(conns, node) == {conn[1] : conn \in {c \in conns : c[2] = node}}

AnalysisCoaches == {"kevin-stefanski", "jim-harbaugh", "gary-kubiak", "klint-kubiak"}

\* hc_list = [c for c in data["coaches"] if c.get("is_current_hc")]
AnalysisHeadCoaches == {"kevin-stefanski", "jim-harbaugh"}

MaxAnalysisConns == 4

\* data["connections"], as <<source, target>>
AnalysisGraphs ==
    {g \in SUBSET {<<s, t>> : s \in AnalysisCoaches, t \in AnalysisCoaches} :
        /\ Cardinality(g) <= MaxAnalysisConns
        /\ \A conn \in g : conn[1] # conn[2]}

\* visited = set(); frontier = {hc_id}; depth = 0
InitDepth ==
    /\ memo = Memo
    /\ pc = "depth analysis"
    /\ CrawlIdle
    /\ data = NoData
    /\ runs = <<>>
    /\ mk = NoMk
    /\ ex = NoEx
    /\ analysis \in {[connections |-> g, hc_id |-> hc, visited |-> {}, frontier |-> {hc},
                      pending |-> {hc}, next_frontier |-> {}, depth |-> 0] :
                        g \in AnalysisGraphs, hc \in AnalysisHeadCoaches}

\* for node in frontier: if node in visited: continue
DepthSkipVisited ==
    /\ pc = "depth analysis"
    /\ \E node \in analysis.pending :
           /\ node \in analysis.visited
           /\ analysis' = [analysis EXCEPT !.pending = @ \ {node}]
    /\ UNCHANGED <<pc, data, runs, mk, memo, ex>> /\ UNCHANGED crawlVars

\* visited.add(node); for mentor in mentors_of.get(node, []):
\*     if mentor not in visited: next_frontier.add(mentor)
DepthVisit ==
    /\ pc = "depth analysis"
    /\ \E node \in analysis.pending :
           /\ node \notin analysis.visited
           /\ analysis' = [analysis EXCEPT
                  !.pending = @ \ {node},
                  !.visited = @ \cup {node},
                  !.next_frontier =
                      @ \cup {mentor \in mentors_of(analysis.connections, node) :
                                 mentor \notin analysis.visited \cup {node}}]
    /\ UNCHANGED <<pc, data, runs, mk, memo, ex>> /\ UNCHANGED crawlVars

\* if next_frontier: depth += 1;  frontier = next_frontier;  while frontier: ...
DepthNextLevel ==
    /\ pc = "depth analysis"
    /\ analysis.frontier # {} /\ analysis.pending = {}
    /\ analysis' = [analysis EXCEPT
           !.depth = IF analysis.next_frontier # {} THEN @ + 1 ELSE @,
           !.frontier = analysis.next_frontier,
           !.pending = analysis.next_frontier,
           !.next_frontier = {}]
    /\ UNCHANGED <<pc, data, runs, mk, memo, ex>> /\ UNCHANGED crawlVars

NextDepth == DepthSkipVisited \/ DepthVisit \/ DepthNextLevel

SpecDepth == InitDepth /\ [][NextDepth]_vars


(***************************************************************************)
(* Properties.                                                             *)
(***************************************************************************)
Last(q) == q[Len(q)]

UnorderedPair(c) == {c.source, c.target}

FetchCalls == Len(fetch_log)

SuccessfulFetches == Cardinality({i \in 1..Len(fetch_log) : fetch_log[i].ok})

\* C1, as stated: a crawl with a page budget of max_pages calls the page fetch
\* for no more than max_pages pages, however long the queue.
C1_FetchCallsWithinBudget == FetchCalls <= max_pages

\* C1: a crawl with a page budget of max_pages fetches no more than max_pages
\* pages successfully, however long the queue; total_scraped counts exactly the
\* successful fetches, and a failed fetch uses up none of the budget.
C1_SuccessfulFetchesWithinBudget ==
    /\ SuccessfulFetches = total_scraped
    /\ SuccessfulFetches <= max_pages

\* the budget is used up with pages still queued, after a fetch that failed
C1_BudgetReachedAfterFailure ==
    /\ pc = "crawl"
    /\ total_scraped = max_pages
    /\ queue # <<>>
    /\ FetchCalls > max_pages

\* C2: in the dataset written by the crawl and then patched by either script,
\* no two connections have the same unordered pair of endpoints.
C2_UniqueUnorderedPairs ==
    pc = "patch" =>
        \A i, j \in 1..Len(data.connections) :
            i # j => UnorderedPair(data.connections[i]) # UnorderedPair(data.connections[j])

\* the Klint Kubiak page listed Gary Kubiak as a protege, so the hand-written
\* edge gary-kubiak -> klint-kubiak met its reverse in the dataset
C2_ReverseEdgeMet ==
    /\ pc = "patch"
    /\ \E i \in 1..Len(runs) :
          /\ runs[i].script = "klint" /\ runs[i].wrote
          /\ \E k \in 1..Len(runs[i].fetch.tree_members) :
                runs[i].fetch.tree_members[k][2] = "Gary Kubiak"
    /\ <<klint_id, "gary-kubiak">> \in PairsOf(data.connections)
    /\ Len(data.connections) >= 2

RefIntegrity(d) ==
    \A i \in 1..Len(d.connections) :
        /\ d.connections[i].source \in IdsOf(d.coaches)
        /\ d.connections[i].target \in IdsOf(d.coaches)

\* C3, as stated: a patch script run on a dataset in which every connection has
\* both endpoints among the coaches writes a dataset in which that still holds.
C3_PatchKeepsEndpoints ==
    [][(pc = "patch" /\ RefIntegrity(data)) => RefIntegrity(data')]_vars

SameDataset(d, e) ==
    /\ Range(d.coaches) = Range(e.coaches)
    /\ Range(d.connections) = Range(e.connections)

SecondRunOf(script) ==
    /\ pc = "patch"
    /\ runs # <<>>
    /\ Last(runs).script = script /\ Last(runs).wrote
    /\ runs' = Append(runs, Last(runs'))
    /\ Last(runs').script = script /\ Last(runs').wrote
    /\ Last(runs').fetch = Last(runs).fetch

\* C4, as stated: a second run of patch_klint_kubiak, with the page fetch
\* returning what it returned the first time, writes the coaches and the
\* connections the first run wrote.
C4_KlintSecondRunSame ==
    [][SecondRunOf("klint") => SameDataset(data', data)]_vars

\* C5: a second run of patch_missing_connections on the dataset its first run
\* wrote adds no coach and no connection: it writes the same dataset.
C5_MissingSecondRunSame ==
    [][SecondRunOf("missing") =>
          /\ data' = data
          /\ Last(runs').conns_added = 0]_vars

\* two runs of patch_missing_connections, the first of which added connections
C5_TwoMissingRuns ==
    /\ Len(runs) = 2
    /\ runs[1].script = "missing" /\ runs[2].script = "missing"
    /\ runs[1].conns_added > 0
    /\ Len(data.coaches) > 0

UniqueIds(coaches) ==
    \A i, j \in 1..Len(coaches) : i # j => coaches[i].id # coaches[j].id

\* C6, as stated: in the dataset written by the crawl, and after any sequence of
\* patch-script runs applied to it, no two coach records have the same id.
C6_UniqueCoachIds == pc = "patch" => UniqueIds(data.coaches)

CrawlReturned == pc = "patch" /\ runs = <<>>

SeedIds == {memo.make_id[seed_coaches[i].name] : i \in 1..Len(seed_coaches)}

\* C7: in the dataset returned by scrape_coaching_trees every coach is a current
\* head coach or the source or target of a connection of that dataset, and every
\* seed is among the coaches, whether or not its page was fetched successfully.
C7_RetainedCoaches ==
    CrawlReturned =>
        /\ \A i \in 1..Len(data.coaches) :
              \/ data.coaches[i].is_current_hc
              \/ \E k \in 1..Len(data.connections) :
                    data.coaches[i].id \in UnorderedPair(data.connections[k])
        /\ SeedIds \subseteq IdsOf(data.coaches)

\* the crawl returned a seed whose page fetch failed and which no connection
\* touches, next to a coach who is no head coach
C7_UnfetchedSeedKept ==
    /\ CrawlReturned
    /\ \E i \in 1..Len(seed_coaches) :
          /\ \E k \in 1..Len(fetch_log) :
                fetch_log[k].page_title = seed_coaches[i].page_title /\ ~fetch_log[k].ok
          /\ \A k \in 1..Len(data.connections) :
                memo.make_id[seed_coaches[i].name] \notin UnorderedPair(data.connections[k])
          /\ memo.make_id[seed_coaches[i].name] \in IdsOf(data.coaches)
    /\ \E i \in 1..Len(data.coaches) : ~data.coaches[i].is_current_hc

IsPrefix(p, q) == Len(p) <= Len(q) /\ SubSeq(q, 1, Len(p)) = p

\* the key a tuple (linked_name, linked_page, relationship, context) found on the
\* page of coach P stands for: mentor first, protege second
MentorFirst(m, P) ==
    IF m[3] = "mentor" THEN <<memo.make_id[m[1]], P>> ELSE <<P, memo.make_id[m[1]]>>

\* C8: every coaching_tree edge the crawl creates while it processes the page of
\* coach P is the mentor-first key of the first tuple of that page that names
\* its pair, and its pair had no edge in either direction before; processing a
\* page changes no edge that exists and never gives a pair a second edge.
C8_MentorToProtege ==
    [][(pc = "crawl" /\ pc' = "crawl") =>
          /\ IsPrefix(connections, connections')
          /\ \A k \in (Len(connections) + 1)..Len(connections') :
                LET c == connections'[k]
                    P == iter'.coach_id
                    ms == iter'.tree_members
                    naming == {i \in 1..Len(ms) :
                                  {memo.make_id[ms[i][1]], P} = UnorderedPair(c)}
                IN  /\ c.type = "coaching_tree"
                    /\ naming # {}
                    /\ \E i \in naming :
                          /\ \A j \in naming : i <= j
                          /\ <<c.source, c.target>> = MentorFirst(ms[i], P)
                    /\ \A j \in 1..(k - 1) :
                          UnorderedPair(connections'[j]) # UnorderedPair(c)
      ]_vars

\* a page named a pair in the direction opposite to the edge an earlier tuple
\* had created for it
C8_PairFoundAgain ==
    /\ pc = "crawl"
    /\ iter.html = "html"
    /\ \E i \in 1..Len(iter.tree_members) :
          LET key == MentorFirst(iter.tree_members[i], iter.coach_id)
          IN  /\ key[1] # key[2]
              /\ <<key[2], key[1]>> \in PairsOf(connections)
              /\ key \notin PairsOf(connections)

\* C9: make_id is idempotent: for every name s, make_id(make_id(s)) = make_id(s).
C9_MakeIdIdempotent == Len(mk.results) = 2 => mk.results[2] = mk.results[1]

\* make_id was applied twice to a name it does not leave as it is: the name has
\* an upper-case letter, inner white space and a parenthetical, and the id is
\* not empty
C9_NormalizedTwice ==
    /\ Len(mk.results) = 2
    /\ mk.results[1] # mk.name
    /\ mk.results[1] # <<>>
    /\ "A" \in Range(mk.name) /\ "(" \in Range(mk.name) /\ ")" \in Range(mk.name)
    /\ "-" \in Range(mk.results[1]) /\ "-" \notin Range(mk.name)

\* the entries x of coach a and y of coach b that the claim lets produce an edge
SameTeamYearsMeet(x, y) ==
    /\ x.team = y.team
    /\ x.team # "Unknown"
    /\ Max(x.year_start, y.year_start) <= Min(x.year_end, y.year_end)

NoZeroYear(x, y) ==
    /\ x.year_start # 0 /\ x.year_end # 0
    /\ y.year_start # 0 /\ y.year_end # 0

IntersectionRange(x, y) ==
    ToString(Max(x.year_start, y.year_start)) \o "-" \o ToString(Min(x.year_end, y.year_end))

CoachPairs == {p \in (1..Len(career_data)) \X (1..Len(career_data)) : p[1] < p[2]}

HasTreeEdge(a, b) ==
    \E k \in 1..Len(connections) :
        connections[k].type = "coaching_tree" /\ UnorderedPair(connections[k]) = {a, b}

OverlapEdges(a, b) ==
    {k \in 1..Len(connections) :
        connections[k].type = "career_overlap" /\ UnorderedPair(connections[k]) = {a, b}}

\* for every pair of coaches with career entries and no edge before: one
\* career_overlap edge, with the intersection range of a pair of entries that
\* Produces it, if some pair of entries does, and none otherwise
OverlapRule(Produces(_, _)) ==
    pc = "cross-referenced" =>
        \A p \in CoachPairs :
            LET a == career_data[p[1]]
                b == career_data[p[2]]
                es == OverlapEdges(a.id, b.id)
                producing == {xy \in (1..Len(a.career)) \X (1..Len(b.career)) :
                                 Produces(a.career[xy[1]], b.career[xy[2]])}
            IN  ~HasTreeEdge(a.id, b.id) =>
                    IF producing # {}
                    THEN /\ Cardinality(es) = 1
                         /\ \E xy \in producing :
                               \A k \in es :
                                  connections[k].years =
                                     IntersectionRange(a.career[xy[1]], b.career[xy[2]])
                    ELSE es = {}

\* C10, as stated: for every unordered pair of distinct coaches with career
\* entries and no edge between them yet, exactly one career_overlap edge is
\* emitted if some entry of one and some entry of the other name the same team
\* other than "Unknown" and max(starts) <= min(ends), and none otherwise; the
\* edge's years are the intersection range.
C10_OverlapEdge == OverlapRule(SameTeamYearsMeet)

\* C10: the same, for entries that also have no year equal to 0: an entry pair
\* with a year 0 among its four years produces no edge.
C10_OverlapEdgeNoZeroYear ==
    OverlapRule(LAMBDA x, y : SameTeamYearsMeet(x, y) /\ NoZeroYear(x, y))

\* the cross-reference gave one pair the edge 2008-2010 of Vikings 2006-2010 and
\* Vikings 2008-2014, gave another pair none, and left alone a pair that had a
\* coaching-tree edge
C10_OverlapFound ==
    /\ pc = "cross-referenced"
    /\ \E k \in 1..Len(connections) :
          connections[k].type = "career_overlap" /\ connections[k].years = "2008-2010"
    /\ \E p \in CoachPairs :
          /\ ~HasTreeEdge(career_data[p[1]].id, career_data[p[2]].id)
          /\ OverlapEdges(career_data[p[1]].id, career_data[p[2]].id) = {}
    /\ \E p \in CoachPairs : HasTreeEdge(career_data[p[1]].id, career_data[p[2]].id)

\* the text of a paragraph or of a list item as the parsers read it
ReadText(strings) == LowerText(get_text(strings))

\* what a paragraph with text t does to the classifier state
ParagraphSets(t) ==
    IF Contains(t, <<"s","e","r","v","e","d"," ","u","n","d","e","r">>) \/ Contains(t, <<"w","o","r","k","e","d"," ","u","n","d","e","r">>) THEN "mentor"
    ELSE IF Contains(t, <<"a","s","s","i","s","t","a","n","t">>) /\ (Contains(t, <<"h","e","a","d"," ","c","o","a","c","h">>) \/ Contains(t, <<"b","e","c","o","m","e">>))
    THEN "protege"
    ELSE IF Contains(t, <<"p","r","o","t",EAcute,"g",EAcute>>) \/ Contains(t, <<"p","r","o","t","e","g","e">>) THEN "protege"
    ELSE "unchanged"

\* the classifier state after the first n elements of the section: what the last
\* paragraph that sets it says, protege when none does
ClassifierState(sec, n) ==
    LET setting == {i \in 1..n : /\ sec[i].tag = "p"
                                 /\ ParagraphSets(ReadText(sec[i].strings)) # "unchanged"}
    IN  IF setting = {} THEN "protege"
        ELSE ParagraphSets(ReadText(sec[CHOOSE i \in setting : \A j \in setting : j <= i].strings))

SaysMentor(li) ==
    \E t \in {LowerText(LiText(li))} :
        Contains(t, <<"s","e","r","v","e","d"," ","u","n","d","e","r">>) \/ Contains(t, <<"w","o","r","k","e","d"," ","u","n","d","e","r">>)

\* the roles a parser gave the items of the list it has just passed, and the
\* items of that list it emitted
NewRoles(before, after) ==
    [k \in 1..(Len(after.results) - Len(before.results)) |->
        after.results[Len(before.results) + k][3]]

Emitted(items, skip_words) == SelectSeq(items, LAMBDA li : FirstPersonLink(li, skip_words) # 0)

\* C11: scanning the paragraphs and lists of a section in order, each parser keeps
\* one state that starts as protege and is what the last paragraph that sets it
\* says (mentor for "served under" or "worked under", else protege for
\* "assistant" with "head coach" or "become", else protege for "protege" with or
\* without accents); each list item it emits gets the role mentor if its own
\* text has "served under" or "worked under", and the state at that point
\* otherwise.
C11_ContextClassifier ==
    [][ex'.pos = ex.pos + 1 =>
          LET e == ex.section[ex.pos]
              now == ClassifierState(ex.section, ex.pos - 1)
              RolesFollow(before, after, skip_words) ==
                  LET emitted == Emitted(e.items, skip_words)
                      roles == NewRoles(before, after)
                  IN  /\ Len(roles) = Len(emitted)
                      /\ \A k \in 1..Len(emitted) :
                            roles[k] = IF SaysMentor(emitted[k]) THEN "mentor" ELSE now
          IN  /\ ex.crawl.current_context = now /\ ex.klint.current_context = now
              /\ ex'.crawl.current_context = ClassifierState(ex.section, ex.pos)
              /\ ex'.klint.current_context = ClassifierState(ex.section, ex.pos)
              /\ e.tag # "p" =>
                    /\ RolesFollow(ex.crawl, ex'.crawl, SKIP_LINK_WORDS)
                    /\ RolesFollow(ex.klint, ex'.klint, KlintSKIP_LINK_WORDS)
      ]_vars

\* the only paragraph of the section reads "He later served under Bill
\* Belichick." and the list after it names Bill Belichick with no wording of its
\* own: both parsers made every item of it a mentor
C11_ServedUnderParagraph ==
    /\ pc = "extract"
    /\ Len(ex.section) = 2 /\ ex.pos = 3
    /\ ex.section[1] = Paragraph(<<<<"H","e"," ","l","a","t","e","r"," ","s","e","r","v","e","d"," ","u","n","d","e","r"," ">>, <<"B","i","l","l"," ","B","e","l","i","c","h","i","c","k">>, <<".">>>>)
    /\ ex.section[2].tag = "ul"
    /\ \A i \in 1..Len(ex.section[2].items) : ~SaysMentor(ex.section[2].items[i])
    /\ Len(ex.crawl.results) = 2 /\ Len(ex.klint.results) = 2
    /\ \A k \in 1..2 : ex.crawl.results[k][3] = "mentor" /\ ex.klint.results[k][3] = "mentor"
    /\ \E k \in 1..2 : ex.crawl.results[k][2] = "Bill Belichick"

\* C12, as stated: every connection of the dataset the crawl returns has a
\* context that is absent or at most 300 characters long, whatever its type.
C12_ContextWithinLimit ==
    CrawlReturned =>
        \A k \in 1..Len(data.connections) :
            \/ data.connections[k].context = None
            \/ Len(data.connections[k].context) <= ContextLimit

FailedFetchStep == Len(fetch_log') = Len(fetch_log) + 1 /\ ~Last(fetch_log').ok

\* C13: a step of the crawl in which the fetch of the dequeued page fails
\* registers no coach, adds no connection and no career data, enqueues no page,
\* leaves the processed-page counter as it is and adds the page to the visited
\* set; the crawl is not aborted by it.
C13_FailedFetchIsSkipped ==
    [][FailedFetchStep =>
          /\ coaches_data' = coaches_data
          /\ connections' = connections /\ connection_set' = connection_set
          /\ career_data' = career_data
          /\ queue' = Tail(queue) /\ depth_map' = depth_map
          /\ total_scraped' = total_scraped
          /\ visited' = visited \cup {Head(queue)[2]}
          /\ Head(queue)[2] = Last(fetch_log').page_title
          /\ pc' = "crawl"
      ]_vars

\* the fetch of one page failed and the crawl went on to fetch the next queue
\* entry, which had links of its own
C13_CrawlWentOn ==
    /\ pc = "crawl"
    /\ \E k \in 1..(Len(fetch_log) - 1) :
          /\ ~fetch_log[k].ok /\ fetch_log[k + 1].ok
          /\ fetch_log[k + 1].page_title # fetch_log[k].page_title
    /\ connections # <<>>

KlintRunEnds == Len(runs') = Len(runs) + 1 /\ Last(runs').script = "klint"

\* C14, as stated: a run of patch_klint_kubiak whose page fetch fails with a
\* timeout, a transport error or a non-200 answer goes on as with no data: it
\* writes the dataset, with Klint Kubiak in it and the manual connection
\* present in one direction.
C14_KlintFetchFailureHandled ==
    [][(KlintRunEnds /\ Last(runs').fetch = FetchRaised) =>
          /\ Last(runs').wrote
          /\ klint_id \in IdsOf(data'.coaches)
          /\ \E k \in 1..Len(data'.connections) :
                UnorderedPair(data'.connections[k]) = {"gary-kubiak", klint_id}
      ]_vars

\* C15: within one crawl run each page title is fetched at most once, however
\* often it is enqueued and whether or not its fetch failed.
C15_FetchedAtMostOnce ==
    \A i, j \in 1..Len(fetch_log) :
        i # j => fetch_log[i].page_title # fetch_log[j].page_title

\* a page that had been enqueued twice came up again after its fetch had failed
\* and was skipped, in a run that also fetched a page successfully
C15_FailedPageMetAgain ==
    /\ pc = "crawl"
    /\ fetch_log # <<>>
    /\ iter.page_title # Last(fetch_log).page_title
    /\ \E k \in 1..Len(fetch_log) :
          fetch_log[k].page_title = iter.page_title /\ ~fetch_log[k].ok
    /\ \E k \in 1..Len(fetch_log) : fetch_log[k].ok

FetchStep == pc = "crawl" /\ Len(fetch_log') = Len(fetch_log) + 1

QueuedPages(q) == {q[i][2] : i \in 1..Len(q)}

\* C16: the crawl never fetches a page whose recorded depth exceeds max_depth;
\* when it processes a page at depth d, a linked page is put in the queue only
\* if d + 1 <= max_depth, and the linked coach's record and an edge between the
\* two coaches are registered whether or not the page is put in the queue.
C16_DepthCeiling ==
    [][FetchStep =>
          /\ Last(fetch_log').depth = DepthOf(depth_map, Head(queue)[2])
          /\ Last(fetch_log').depth <= max_depth
          /\ \A t \in DOMAIN depth_map' : depth_map'[t] <= max_depth
          /\ Last(fetch_log').ok =>
                \A i \in 1..Len(iter'.tree_members) :
                   LET m == iter'.tree_members[i]
                       d == Last(fetch_log').depth
                       added == SubSeq(queue', Len(queue), Len(queue'))
                   IN  /\ m[2] \in QueuedPages(added) => d + 1 <= max_depth
                       /\ memo.make_id[m[1]] \in Keys(coaches_data')
                       /\ \E k \in 1..Len(connections') :
                             UnorderedPair(connections'[k]) =
                                {memo.make_id[m[1]], iter'.coach_id}
      ]_vars

\* a page was processed at depth max_depth; it linked a page that had not been
\* visited, which was left out of the queue, while the linked coach and the
\* edge were registered
C16_LinkBeyondCeiling ==
    /\ pc = "crawl"
    /\ iter.html = "html" /\ iter.current_depth = max_depth
    /\ iter.page_title = Last(fetch_log).page_title
    /\ \E i \in 1..Len(iter.tree_members) :
          LET m == iter.tree_members[i]
          IN  /\ m[2] \notin visited
              /\ m[2] \notin QueuedPages(queue)
              /\ memo.make_id[m[1]] \in Keys(coaches_data)
              /\ {memo.make_id[m[1]], iter.coach_id} \in
                    {UnorderedPair(connections[k]) : k \in 1..Len(connections)}

SeedPages == {seed_coaches[i].page_title : i \in 1..Len(seed_coaches)}

\* C17, as stated: the depth at which the crawl processes a page is the least
\* number of link hops from a seed page to it; so every seed page is processed
\* at depth 0, and the pages are processed in non-decreasing order of depth.
C17_BreadthFirstDepths ==
    /\ \A k \in 1..Len(fetch_log) :
          (fetch_log[k].ok /\ fetch_log[k].page_title \in SeedPages)
             => fetch_log[k].depth = 0
    /\ \A i, j \in 1..Len(fetch_log) :
          (i < j /\ fetch_log[i].ok /\ fetch_log[j].ok)
             => fetch_log[i].depth <= fetch_log[j].depth

\* C18: whatever the pages hold and whichever fetches fail, the crawl loop
\* comes to an end, and when it ends the queue is empty or the processed-page
\* counter has reached max_pages.
C18_CrawlTerminates ==
    /\ <>(pc # "crawl")
    /\ [][(pc = "crawl" /\ pc' # "crawl") =>
              (queue = <<>> \/ total_scraped = max_pages)]_vars

\* the loop ended with the queue used up and the budget not reached, after a
\* failed fetch and a processed page that gave a connection
C18_QueueExhausted ==
    /\ CrawlReturned
    /\ total_scraped < max_pages
    /\ Len(fetch_log) >= 2
    /\ \E k \in 1..Len(fetch_log) : ~fetch_log[k].ok
    /\ \E k \in 1..Len(fetch_log) : fetch_log[k].ok
    /\ Len(data.connections) >= 1

\* The analysis of one head coach is over: "while frontier" found it empty.
AnalysisReported == pc = "depth analysis" /\ analysis.frontier = {}

\* The largest shortest-path distance from the coaches in reached, k steps
\* from the head coach, following connections from target to source.
RECURSIVE LargestDistance(_, _, _)
LargestDistance(conns, reached, k) ==
    LET further == reached \cup UNION {mentors_of(conns, node) : node \in reached}
    IN  IF further = reached THEN k ELSE LargestDistance(conns, further, k + 1)

\* C19: for every connection graph and head coach, the depth the analysis
\* reports is the largest shortest-path distance from the head coach to a
\* coach reachable from target to source, and 0 without an ancestor.
C19_DepthIsLargestDistance ==
    AnalysisReported =>
        analysis.depth = LargestDistance(analysis.connections, {analysis.hc_id}, 0)

\* C20: on every section, parse_coaching_tree_section of patch_klint_kubiak
\* has returned the same (name, page title, role, snippet) tuples as
\* parse_coaching_tree_section of scrape_coaches.
C20_SameTuples == ex.crawl.results = ex.klint.results

====
